---- MODULE Spec2Model ----
(***************************************************************************)
(* Model of firefly_oneshot_bot.py: a Telegram bot that turns one line of  *)
(* free text into a Firefly III withdrawal.  Python strings are modelled   *)
(* as sequences of one-character strings, the ledger backend as the lists *)
(* it serves, and functools.lru_cache(maxsize=1) as a memo cell per list.  *)
(***************************************************************************)
EXTENDS Integers, Sequences, FiniteSets, TLC

(***************************************************************************)
(* Bounds of the model.                                                    *)
(***************************************************************************)
\* total size of what the transport delivers: the comma-separated segments of
\* the messages, a command counting as one segment
MaxSegs == 4
\* the history's fetch counters saturate here
MaxCount == 2

\* pages of a paginated list, and entries on one page
MaxPages == 3

MaxPageLen == 2

\* segments of a message whose parsing is checked on its own
MaxParseSegs == 3

(***************************************************************************)
(* Python values.                                                          *)
(***************************************************************************)
\* str.isspace() characters of the model's alphabet
WS == {" ", "\t", "\n"}

Digits == <<"0", "1", "2", "3", "4", "5", "6", "7", "8", "9">>

IsDigit(c) == \E i \in 1..10 : Digits[i] = c

DigitVal(c) == (CHOOSE i \in 1..10 : Digits[i] = c) - 1

\* str.lower() on the letters float() looks at
Lower(c) ==
    CASE c = "E" -> "e" [] c = "I" -> "i" [] c = "N" -> "n" [] c = "F" -> "f"
      [] c = "A" -> "a" [] c = "T" -> "t" [] c = "Y" -> "y" [] OTHER -> c

LowerStr(s) == [i \in 1..Len(s) |-> Lower(s[i])]

Tail0(s, n) == SubSeq(s, n + 1, Len(s))

RECURSIVE lstrip(_)
lstrip(s) == IF s # <<>> /\ Head(s) \in WS THEN lstrip(Tail(s)) ELSE s

RECURSIVE rstrip(_)
rstrip(s) ==
    IF s # <<>> /\ s[Len(s)] \in WS THEN rstrip(SubSeq(s, 1, Len(s) - 1)) ELSE s

\* str.strip()
strip(s) == rstrip(lstrip(s))

\* str.startswith(p)
startswith(s, p) == Len(s) >= Len(p) /\ SubSeq(s, 1, Len(p)) = p

\* index of the first character of s that is in set cs, 0 when there is none
RECURSIVE FindFrom(_, _, _)
FindFrom(s, cs, i) ==
    IF i > Len(s) THEN 0
    ELSE IF s[i] \in cs THEN i
    ELSE FindFrom(s, cs, i + 1)

\* str.split(sep) for a one-character separator: never an empty list
RECURSIVE split(_, _)
split(s, sep) ==
    LET i == FindFrom(s, {sep}, 1)
    IN  IF i = 0 THEN <<s>>
        ELSE <<SubSeq(s, 1, i - 1)>> \o split(Tail0(s, i), sep)

\* str.split(maxsplit=1): whitespace split into at most two parts; the second
\* part keeps its trailing whitespace
split_maxsplit1(s) ==
    LET t == lstrip(s)
        i == FindFrom(t, WS, 1)
    IN  IF t = <<>> THEN <<>>
        ELSE IF i = 0 THEN <<t>>
        ELSE LET rest == lstrip(Tail0(t, i))
             IN  IF rest = <<>> THEN <<SubSeq(t, 1, i - 1)>>
                 ELSE <<SubSeq(t, 1, i - 1), rest>>

RECURSIVE Pow10(_)
Pow10(n) == IF n <= 0 THEN 1 ELSE 10 * Pow10(n - 1)

\* a run of digits in which single underscores may separate digits
IsDigitRun(s) ==
    /\ s # <<>>
    /\ IsDigit(s[1])
    /\ IsDigit(s[Len(s)])
    /\ \A i \in 1..Len(s) : IsDigit(s[i]) \/ s[i] = "_"
    /\ \A i \in 1..(Len(s) - 1) : ~(s[i] = "_" /\ s[i + 1] = "_")

RECURSIVE DigitsValue(_, _)
DigitsValue(s, acc) ==
    IF s = <<>> THEN acc
    ELSE IF Head(s) = "_" THEN DigitsValue(Tail(s), acc)
    ELSE DigitsValue(Tail(s), 10 * acc + DigitVal(Head(s)))

CountDigits(s) == Cardinality({i \in 1..Len(s) : IsDigit(s[i])})

ValueError == [ok |-> FALSE]

\* the unsigned decimal part of a float literal: digits, ".", digits
FloatMantissa(m) ==
    LET d == FindFrom(m, {"."}, 1)
        ip == IF d = 0 THEN m ELSE SubSeq(m, 1, d - 1)
        fp == IF d = 0 THEN <<>> ELSE Tail0(m, d)
    IN  IF /\ (ip = <<>> \/ IsDigitRun(ip))
           /\ (fp = <<>> \/ IsDigitRun(fp))
           /\ (ip # <<>> \/ fp # <<>>)
        THEN [ok |-> TRUE, mant |-> DigitsValue(ip \o fp, 0), exp |-> 0 - CountDigits(fp)]
        ELSE ValueError

FloatExponent(e) ==
    LET neg == e # <<>> /\ Head(e) = "-"
        body == IF e # <<>> /\ Head(e) \in {"+", "-"} THEN Tail(e) ELSE e
    IN  IF IsDigitRun(body)
        THEN [ok |-> TRUE, exp |-> IF neg THEN 0 - DigitsValue(body, 0) ELSE DigitsValue(body, 0)]
        ELSE ValueError

\* float(tok) for a token without surrounding whitespace: the value is
\* (-1)^neg * mant * 10^exp, or an infinity or a NaN
float(tok) ==
    LET neg == tok # <<>> /\ Head(tok) = "-"
        body == IF tok # <<>> /\ Head(tok) \in {"+", "-"} THEN Tail(tok) ELSE tok
        low == LowerStr(body)
        e == FindFrom(low, {"e"}, 1)
        m == IF e = 0 THEN FloatMantissa(low) ELSE FloatMantissa(SubSeq(low, 1, e - 1))
        x == IF e = 0 THEN [ok |-> TRUE, exp |-> 0] ELSE FloatExponent(Tail0(low, e))
    IN  IF low \in {<<"i", "n", "f">>, <<"i", "n", "f", "i", "n", "i", "t", "y">>}
        THEN [ok |-> TRUE, kind |-> "inf", neg |-> neg, mant |-> 0, exp |-> 0]
        ELSE IF low = <<"n", "a", "n">>
        THEN [ok |-> TRUE, kind |-> "nan", neg |-> FALSE, mant |-> 0, exp |-> 0]
        ELSE IF m.ok /\ x.ok
        THEN [ok |-> TRUE, kind |-> "num", neg |-> neg, mant |-> m.mant, exp |-> m.exp + x.exp]
        ELSE ValueError

RECURSIVE IntToStr(_)
IntToStr(n) ==
    IF n < 10 THEN <<Digits[n + 1]>>
    ELSE IntToStr(n \div 10) \o <<Digits[(n % 10) + 1]>>

RECURSIVE Pow2(_)
Pow2(n) == IF n <= 0 THEN 1 ELSE 2 * Pow2(n - 1)

RECURSIVE Log2(_)
Log2(n) == IF n < 2 THEN 0 ELSE 1 + Log2(n \div 2)

RECURSIVE Pow2Mod1000(_)
Pow2Mod1000(e) == IF e <= 0 THEN 1 ELSE (2 * Pow2Mod1000(e - 1)) % 1000

\* float() gives the binary double nearest to the literal.  For a literal
\* that lies exactly between two hundredths, t = (10 * q + 5) / 1000, this is
\* where that double lies: 0 when it is t itself, -1 below t, 1 above t.
\* With 2^k <= t < 2^(k + 1) the double is round(t * 2^(52 - k)) / 2^(52 - k),
\* and which way that rounds shows in (10 * q + 5) * 2^(52 - k) modulo 1000.
\* (A remainder of exactly 500 needs t >= 2^50.)
DoubleSide(q) ==
    LET k == IF q >= 100 THEN Log2(q \div 100)
             ELSE 0 - (CHOOSE j \in 1..8 : /\ (10 * q + 5) * Pow2(j) >= 1000
                                           /\ (10 * q + 5) * Pow2(j - 1) < 1000)
        r == ((((q % 100) * 10 + 5) * Pow2Mod1000(52 - k)) % 1000)
    IN  IF r = 0 THEN 0 ELSE IF r < 500 THEN -1 ELSE 1

\* hundredths of |v| as f"{amount:.2f}" shows them: the double float()
\* returned, rounded to the nearest hundredth, half to even.  A literal off
\* the middle between two hundredths rounds as its double does (the two
\* differ by far less than the literal's last digit); one in the middle
\* goes where its double lies.  For amounts below 2^31 hundredths.
Cents(v) ==
    IF v.exp >= -2 THEN v.mant * Pow10(v.exp + 2)
    ELSE LET p == Pow10(0 - v.exp - 2)
             q == v.mant \div p
             r == v.mant % p
             side == IF 2 * r = p THEN DoubleSide(q) ELSE 0
         IN  IF \/ 2 * r > p
                \/ (2 * r = p /\ side = 1)
                \/ (2 * r = p /\ side = 0 /\ q % 2 = 1)
             THEN q + 1 ELSE q

\* f"{amount:.2f}"
FormatAmount(v) ==
    IF v.kind = "nan" THEN <<"n", "a", "n">>
    ELSE LET sign == IF v.neg THEN <<"-">> ELSE <<>>
         IN  IF v.kind = "inf" THEN sign \o <<"i", "n", "f">>
             ELSE LET c == Cents(v)
                  IN  sign \o IntToStr(c \div 100) \o <<".">>
                        \o <<Digits[((c \div 10) % 10) + 1], Digits[(c % 10) + 1]>>

(***************************************************************************)
(* The world a handler runs in.  A handler is a function from the world    *)
(* before it to the set of worlds it can leave, one per combination of     *)
(* backend answers (and of fuzzy-match choices).                           *)
(*   cache   the two lru_cache cells: populated or not, and the list       *)
(*   ledger  what the backend holds                                        *)
(*   trace   the backend requests and cache events of the current update   *)
(*   hist    history: ids this process created; list fetches issued and    *)
(*           list fetches answered since the last cache_clear of each      *)
(*           kind; segments delivered; what the last handled update        *)
(*           added, and what the one before it had added                   *)
(* Python's None is the exception name "None", the id 0 and the empty      *)
(* name: backend ids start at 1 and backend names are never empty.         *)
(***************************************************************************)
Kinds == {"accounts", "categories"}

\* what the backend can answer to one request: a success with the data
\* envelope, a non-success status or transport failure (a RequestException on
\* a mutating call), or a success body without the "data" key
Outcomes == {"ok", "http_error", "no_data"}

\* the one split of a transaction payload (lines 303-314); the date, the
\* clock's reading, is left out; category_id 0 stands for an absent key
Split(amount, desc, dest_id, cat_id) ==
    [type |-> "withdrawal", amount |-> amount, description |-> desc,
     source_id |-> "account_id", notes |-> "Added via Telegram",
     destination_id |-> dest_id, category_id |-> cat_id]

NoSplit == Split(<<>>, <<>>, 0, 0)

Event(op, res, status, name, body) ==
    [op |-> op, res |-> res, status |-> status, name |-> name, body |-> body]

Log(w, e) == [w EXCEPT !.trace = Append(@, e)]

Bump(n) == IF n < MaxCount THEN n + 1 ELSE n

\* one call's result: the world after it, the exception it raised (or None)
\* and the value it returned
Ret(w, exc, val) == [w |-> w, exc |-> exc, val |-> val]

NoEntity == [id |-> 0, name |-> <<>>]

\* GET of a whole list (lines 74-107 with method="GET", first=False): a
\* response without "data" is logged and then raises KeyError at line 100.
\* The list is taken as the backend holds it; how its pages are followed and
\* put together is GetPaged below.
GetList(kind, w) ==
    { LET w1 == Log([w EXCEPT !.hist.fetches[kind] = Bump(@),
                                !.hist.fetched[kind] = IF o = "ok" THEN Bump(@) ELSE @],
                    Event("GET", kind, o, <<>>, NoSplit))
      IN  CASE o = "ok" -> Ret(w1, "None", w.ledger[kind])
            [] o = "http_error" -> Ret(w1, "RequestException", <<>>)
            [] o = "no_data" -> Ret(w1, "KeyError", <<>>)
      : o \in Outcomes }

\* The response to the GET of one page of a list whose pages are `pages`:
\* the page's entries and the links of the backend's paginator, a page's URL
\* being its number.  "self" equals "last" on the last page and nowhere else.
PageResponse(pages, url) ==
    [data |-> pages[url], self |-> url, last |-> Len(pages), next |-> url + 1]

\* real_data.extend(<the following pages>) (lines 105-106), the other way round
ExtendReversed(real_data, rest) == rest \o real_data

\* real_data.extend(<the following pages>) (lines 105-106)
Extend(real_data, rest) == real_data \o rest

\* _get_data_from_request(url, first) with method="GET" on a paginated list
\* (lines 74-107): the page is requested; a body without "data" raises
\* KeyError; with first=True the page is returned; if the body has "links"
\* and "self" differs from "last" the call recurses on "next" (first=False)
\* and appends what that returns.  `sent` is the URLs requested so far.
RECURSIVE GetPaged(_, _, _, _, _)
GetPaged(pages, links, url, first, sent) ==
    LET sent1 == Append(sent, url)
        data == PageResponse(pages, url)
    IN  UNION {
          CASE o = "http_error" ->
                 {[exc |-> "RequestException", val |-> <<>>, sent |-> sent1]}
            [] o = "no_data" ->
                 {[exc |-> "KeyError", val |-> <<>>, sent |-> sent1]}
            [] o = "ok" ->
                 IF first THEN {[exc |-> "None", val |-> data.data, sent |-> sent1]}
                 ELSE IF links /\ data.self # data.last
                 THEN { IF r.exc # "None" THEN r
                        ELSE [r EXCEPT !.val = Extend(data.data, r.val)]
                        : r \in GetPaged(pages, links, data.next, FALSE, sent1) }
                 ELSE {[exc |-> "None", val |-> data.data, sent |-> sent1]}
          : o \in Outcomes }

\* POST that creates an account or a category (lines 74-102, method="POST")
PostEntity(kind, name, w) ==
    { LET e == [id |-> Len(w.ledger[kind]) + 1, name |-> name]
          applied == [w EXCEPT !.ledger[kind] = Append(@, e)]
      IN  CASE o = "ok" ->
                 Ret(Log(applied, Event("POST", kind, o, name, NoSplit)), "None", e)
            [] o = "http_error" ->
                 Ret(Log(w, Event("POST", kind, o, name, NoSplit)), "RequestException", NoEntity)
            [] o = "no_data" ->
                 Ret(Log(applied, Event("POST", kind, o, name, NoSplit)), "KeyError", NoEntity)
      : o \in Outcomes }

\* POST that creates a transaction (line 315)
PostTransaction(body, w) ==
    { LET t == [id |-> w.ledger.nextTx, split |-> body]
          applied == [w EXCEPT !.ledger.transactions = Append(@, t),
                               !.ledger.nextTx = @ + 1]
      IN  CASE o = "ok" ->
                 Ret(Log(applied, Event("POST", "transactions", o, <<>>, body)), "None", t.id)
            [] o = "http_error" ->
                 Ret(Log(w, Event("POST", "transactions", o, <<>>, body)), "RequestException", 0)
            [] o = "no_data" ->
                 Ret(Log(applied, Event("POST", "transactions", o, <<>>, body)), "KeyError", 0)
      : o \in Outcomes }

\* the name the backend shows for an entity id; None when there is none
NameOfId(data, id) ==
    IF \E i \in 1..Len(data) : data[i].id = id
    THEN data[CHOOSE i \in 1..Len(data) : data[i].id = id].name
    ELSE <<>>

\* GET of the source account's withdrawals with limit=1 and first=True
\* (lines 221-225): at most the newest transaction, as the backend renders it
GetLastPage(w) ==
    { LET w1 == Log(w, Event("GET", "transactions", o, <<>>, NoSplit))
          txs == w.ledger.transactions
      IN  CASE o = "ok" ->
                 Ret(w1, "None", IF txs = <<>> THEN <<>> ELSE <<txs[Len(txs)]>>)
            [] o = "http_error" -> Ret(w1, "RequestException", <<>>)
            [] o = "no_data" -> Ret(w1, "KeyError", <<>>)
      : o \in Outcomes }

\* DELETE of a transaction (lines 89-92): no body is read back
DeleteTransaction(id, w) ==
    { LET txs == w.ledger.transactions
          keep == SelectSeq(txs, LAMBDA t : t.id # id)
      IN  IF o = "ok"
          THEN Ret(Log([w EXCEPT !.ledger.transactions = keep],
                       Event("DELETE", "transactions", o, <<>>, NoSplit)), "None", id)
          ELSE Ret(Log(w, Event("DELETE", "transactions", o, <<>>, NoSplit)),
                   "RequestException", id)
      : o \in {"ok", "http_error"} }

\* the list fetch without its lru_cache decorator
CachedListNoMemo(kind, w) == GetList(kind, w)

\* functools.lru_cache(maxsize=1) around a list fetch: a hit returns the
\* memoized list, a miss calls through and memoizes what the call returns;
\* a call that raises memoizes nothing
CachedList(kind, w) ==
    IF w.cache[kind].populated
    THEN {Ret(Log(w, Event("cache_hit", kind, "ok", <<>>, NoSplit)), "None", w.cache[kind].data)}
    ELSE { IF r.exc = "None"
           THEN Ret([r.w EXCEPT !.cache[kind] = [populated |-> TRUE, data |-> r.val]],
                    "None", r.val)
           ELSE r
           : r \in GetList(kind, w) }

_get_expense_accounts_data(w) == CachedList("accounts", w)

_get_categories_data(w) == CachedList("categories", w)

Unpopulated == [populated |-> FALSE, data |-> <<>>]

\* cache_clear() left out after a creation
cache_clear_skipped(kind, w) == w

\* cache_clear() called on the cached function of the other kind
cache_clear_other(kind, w) ==
    LET k == IF kind = "accounts" THEN "categories" ELSE "accounts"
    IN  Log([w EXCEPT !.cache[k] = Unpopulated, !.hist.fetches[k] = 0,
                      !.hist.fetched[k] = 0],
            Event("cache_clear", k, "ok", <<>>, NoSplit))

\* <cached function>.cache_clear()
cache_clear(kind, w) ==
    Log([w EXCEPT !.cache[kind] = Unpopulated, !.hist.fetches[kind] = 0,
                  !.hist.fetched[kind] = 0],
        Event("cache_clear", kind, "ok", <<>>, NoSplit))

\* the dict {a["attributes"]["name"]: a["id"] for a in data}: a later entity
\* of the same name replaces the id
NameSet(data) == {data[i].name : i \in 1..Len(data)}

IdOf(data, name) ==
    LET last == CHOOSE i \in 1..Len(data) :
                  /\ data[i].name = name
                  /\ \A j \in (i + 1)..Len(data) : data[j].name # name
    IN  data[last].id

\* thefuzz process.extractOne(part, names): the best-scoring name, whatever
\* the score; None for an empty collection, which the unpacking
\* "name, ratio = ..." turns into a TypeError.  Which name scores best is
\* left open: every name of the list is a possible result.
extractOne(part, names) == names

\* the fuzzy branch (lines 145-153 and 180-188)
FuzzyFind(kind, part, w) ==
    UNION { IF r.exc # "None" THEN {Ret(r.w, r.exc, NoEntity)}
            ELSE IF NameSet(r.val) = {} THEN {Ret(r.w, "TypeError", NoEntity)}
            ELSE { Ret(r.w, "None", [id |-> IdOf(r.val, n), name |-> n])
                   : n \in extractOne(part, NameSet(r.val)) }
            : r \in IF kind = "accounts" THEN _get_expense_accounts_data(w)
                    ELSE _get_categories_data(w) }

\* a creation branch that looks the name up instead of creating it
CreateEntityLookup(kind, name, w) == FuzzyFind(kind, name, w)

\* a creation branch without the empty-name check of lines 132 and 169
CreateEntityUnchecked(kind, name, w) ==
    { CASE r.exc = "None" ->
             Ret(cache_clear(kind, [r.w EXCEPT !.hist.created[kind] = @ \cup {r.val.id}]),
                 "None", r.val)
        [] r.exc = "RequestException" -> Ret(r.w, "None", NoEntity)
        [] OTHER -> Ret(r.w, r.exc, NoEntity)
      : r \in PostEntity(kind, name, w) }

\* a creation branch that clears the cache whether or not the POST succeeded
CreateEntityClearAlways(kind, name, w) ==
    IF name = <<>> THEN {Ret(w, "None", NoEntity)}
    ELSE { CASE r.exc = "None" ->
                  Ret(cache_clear(kind, [r.w EXCEPT !.hist.created[kind] = @ \cup {r.val.id}]),
                      "None", r.val)
             [] r.exc = "RequestException" -> Ret(cache_clear(kind, r.w), "None", NoEntity)
             [] OTHER -> Ret(r.w, r.exc, NoEntity)
           : r \in PostEntity(kind, name, w) }

\* a creation branch that returns the entity of that name when the backend
\* already holds one
CreateEntityIfAbsent(kind, name, w) ==
    IF name = <<>> THEN {Ret(w, "None", NoEntity)}
    ELSE IF name \in NameSet(w.ledger[kind])
    THEN {Ret(w, "None", [id |-> IdOf(w.ledger[kind], name), name |-> name])}
    ELSE { CASE r.exc = "None" ->
                  Ret(cache_clear(kind, [r.w EXCEPT !.hist.created[kind] = @ \cup {r.val.id}]),
                      "None", r.val)
             [] r.exc = "RequestException" -> Ret(r.w, "None", NoEntity)
             [] OTHER -> Ret(r.w, r.exc, NoEntity)
           : r \in PostEntity(kind, name, w) }

\* the creation branch (lines 130-143 and 167-178): an empty name returns
\* (None, None) without a request; a RequestException is caught and gives
\* (None, None); a success clears the cache of the kind
CreateEntity(kind, name, w) ==
    IF name = <<>> THEN {Ret(w, "None", NoEntity)}
    ELSE { CASE r.exc = "None" ->
                  Ret(cache_clear(kind, [r.w EXCEPT !.hist.created[kind] = @ \cup {r.val.id}]),
                      "None", r.val)
             [] r.exc = "RequestException" -> Ret(r.w, "None", NoEntity)
             [] OTHER -> Ret(r.w, r.exc, NoEntity)
           : r \in PostEntity(kind, name, w) }

\* _find_dest_account(part) and _find_category(part)
FindEntity(kind, part, w) ==
    IF part # <<>>
    THEN LET p == strip(part)
         IN  IF startswith(p, <<"+">>)
             THEN CreateEntity(kind, strip(Tail(p)), w)
             ELSE FuzzyFind(kind, p, w)
    ELSE {Ret(w, "None", NoEntity)}

_find_dest_account(part, w) == FindEntity("accounts", part, w)

_find_category(part, w) == FindEntity("categories", part, w)

(***************************************************************************)
(* The handlers.  A handler's outcome is the world it leaves, the          *)
(* exception that escaped it (or None) and the reply it sent.              *)
(***************************************************************************)
NoSummary ==
    [amount |-> <<>>, description |-> <<>>, destination_name |-> <<>>,
     category_name |-> <<>>, id |-> 0]

Reply(kind, name, body, summary) ==
    [kind |-> kind, name |-> name, body |-> body, summary |-> summary]

NoReply == Reply("none", <<>>, NoSplit, NoSummary)

\* "Could not parse message. Expected: <amount> [description]"
ParseFailure == Reply("parse_failure", <<>>, NoSplit, NoSummary)

\* "Could not identify destination account."
DestFailure == Reply("dest_failure", <<>>, NoSplit, NoSummary)

Outcome(w, exc, reply) == [w |-> w, exc |-> exc, reply |-> reply]

DEST == <<"d", "e", "s", "t", "=">>

CAT == <<"c", "a", "t", "=">>

UNKNOWN == <<"U", "n", "k", "n", "o", "w", "n">>

\* one iteration of the loop that takes every segment for free text
AddPartNoTags(seg, st) ==
    {[st EXCEPT !.desc = (IF @ # <<>> THEN @ \o <<",", " ">> ELSE @) \o strip(seg)]}

\* one iteration of the loop over msg.split(",") (lines 268-279)
AddPart(seg, st) ==
    LET part == strip(seg)
    IN  IF startswith(part, DEST)
        THEN { [st EXCEPT !.w = r.w, !.exc = r.exc, !.dest_id = r.val.id]
               : r \in _find_dest_account(Tail0(part, Len(DEST)), st.w) }
        ELSE IF startswith(part, CAT)
        THEN { [st EXCEPT !.w = r.w, !.exc = r.exc, !.cat_id = r.val.id]
               : r \in _find_category(Tail0(part, Len(CAT)), st.w) }
        ELSE {[st EXCEPT !.desc = (IF @ # <<>> THEN @ \o <<",", " ">> ELSE @) \o part]}

\* the loop: an exception leaves it at once
RECURSIVE AddLoop(_, _)
AddLoop(segs, st) ==
    IF segs = <<>> \/ st.exc # "None" THEN {st}
    ELSE UNION { AddLoop(Tail(segs), st2) : st2 \in AddPart(Head(segs), st) }

\* lines 281-293: the amount and the description of the free text
ParseAmount(desc) ==
    LET parts == split_maxsplit1(desc)
    IN  IF parts = <<>> THEN [ok |-> FALSE, amount |-> ValueError, desc |-> <<>>]
        ELSE [ok |-> float(parts[1]).ok, amount |-> float(parts[1]),
              desc |-> IF Len(parts) = 1 THEN UNKNOWN ELSE parts[2]]

\* the payload replied whatever the POST's answer
SubmitUnchecked(w, amount, desc, dest_id, cat_id) ==
    LET body == Split(FormatAmount(amount), desc, dest_id, cat_id)
    IN  { Outcome(r.w, "None", Reply("payload", <<>>, body, NoSummary))
          : r \in PostTransaction(body, w) }

\* lines 301-316: build the payload, POST it, reply with it
Submit(w, amount, desc, dest_id, cat_id) ==
    LET body == Split(FormatAmount(amount), desc, dest_id, cat_id)
    IN  { IF r.exc = "None" THEN Outcome(r.w, "None", Reply("payload", <<>>, body, NoSummary))
          ELSE Outcome(r.w, r.exc, NoReply)
          : r \in PostTransaction(body, w) }

\* after the loop, without the default destination of lines 295-299
AddFinishNoDefault(st) ==
    LET p == ParseAmount(st.desc)
    IN  IF st.exc # "None" THEN {Outcome(st.w, st.exc, NoReply)}
        ELSE IF ~p.ok THEN {Outcome(st.w, "None", ParseFailure)}
        ELSE Submit(st.w, p.amount, p.desc, st.dest_id, st.cat_id)

\* lines 281-316, after the loop
AddFinish(st) ==
    LET p == ParseAmount(st.desc)
    IN  IF st.exc # "None" THEN {Outcome(st.w, st.exc, NoReply)}
        ELSE IF ~p.ok THEN {Outcome(st.w, "None", ParseFailure)}
        ELSE IF st.dest_id # 0 THEN Submit(st.w, p.amount, p.desc, st.dest_id, st.cat_id)
        ELSE UNION { IF r.exc # "None" THEN {Outcome(r.w, r.exc, NoReply)}
                     ELSE IF r.val.id = 0 THEN {Outcome(r.w, "None", DestFailure)}
                     ELSE Submit(r.w, p.amount, p.desc, r.val.id, st.cat_id)
                     : r \in _find_dest_account(UNKNOWN, st.w) }

\* add(update, context) on the message text
add_run(text, w) ==
    UNION { AddFinish(st)
            : st \in AddLoop(split(strip(text), ","),
                             [w |-> w, exc |-> "None", dest_id |-> 0, cat_id |-> 0,
                              desc |-> <<>>]) }

\* cat_command and dest_command: reply_text(name) of the resolver's result
cat_run(text, w) ==
    { Outcome(r.w, r.exc, IF r.exc = "None" THEN Reply("name", r.val.name, NoSplit, NoSummary) ELSE NoReply)
      : r \in _find_category(text, w) }

dest_run(text, w) ==
    { Outcome(r.w, r.exc, IF r.exc = "None" THEN Reply("name", r.val.name, NoSplit, NoSummary) ELSE NoReply)
      : r \in _find_dest_account(text, w) }

\* _get_last_transaction(): the rendered newest withdrawal and its id;
\* data[0] of an empty page raises IndexError
_get_last_transaction(w) ==
    { IF r.exc # "None" THEN Ret(r.w, r.exc, NoSummary)
      ELSE IF r.val = <<>> THEN Ret(r.w, "IndexError", NoSummary)
      ELSE LET t == r.val[1]
           IN  Ret(r.w, "None",
                   [amount |-> FormatAmount(float(t.split.amount)),
                    description |-> t.split.description,
                    destination_name |-> NameOfId(r.w.ledger.accounts, t.split.destination_id),
                    category_name |-> NameOfId(r.w.ledger.categories, t.split.category_id),
                    id |-> t.id])
      : r \in GetLastPage(w) }

\* undo_command without its DELETE request
undo_run_no_delete(w) ==
    { IF r.exc # "None" THEN Outcome(r.w, r.exc, NoReply)
      ELSE Outcome(r.w, "None", Reply("deleted", <<>>, NoSplit, r.val))
      : r \in _get_last_transaction(w) }

\* undo_command: read the last transaction, DELETE it, reply "Deleted: " + msg
undo_run(w) ==
    UNION { IF r.exc # "None" THEN {Outcome(r.w, r.exc, NoReply)}
            ELSE { IF d.exc # "None" THEN Outcome(d.w, d.exc, NoReply)
                   ELSE Outcome(d.w, "None", Reply("deleted", <<>>, NoSplit, r.val))
                   : d \in DeleteTransaction(r.val.id, r.w) }
            : r \in _get_last_transaction(w) }

\* last_command: reply with the rendered last transaction
last_run(w) ==
    { IF r.exc # "None" THEN Outcome(r.w, r.exc, NoReply)
      ELSE Outcome(r.w, "None", Reply("last", <<>>, NoSplit, r.val))
      : r \in _get_last_transaction(w) }

(***************************************************************************)
(* The updates the transport delivers.                                     *)
(***************************************************************************)
FreeSegs ==
    { <<"1", "2">>,
      <<"1", "2", "€", " ", "c", "h", "e", "e", "s", "e">>,
      <<"9", " ", "c", "h", "e", "e", "s", "e">> }

TagSegs ==
    { DEST \o <<"M", "a", "r", "k", "t">>,
      DEST \o <<"+", "N", "e", "w">>,
      DEST \o <<"+">>,
      CAT \o <<"+", "S", "n", "a", "c", "k", "s">>,
      CAT \o <<"s", "n", "k">> }

Segs == FreeSegs \cup TagSegs

RECURSIVE Join(_)
Join(segs) ==
    IF Len(segs) = 1 THEN segs[1]
    ELSE segs[1] \o <<",", " ">> \o Join(Tail(segs))

\* the messages of n segments
Messages(n) == { Join(q) : q \in [1..n -> Segs] }

\* " ".join(context.args) of a /cat or /dest command (has_args=True)
CmdArgs ==
    { <<"M", "a", "r", "k", "t">>, <<"+", "N", "e", "w">>, <<"+">> }

\* The updates of size n.  The handlers are registered without an update
\* type filter and polling asks for all update types (lines 335-351), so they
\* also get the allowed user's edited messages and commands; on those
\* update.message is None and the text is update.edited_message's.  One
\* edited text stands for all: add does not get to read it.
Updates(n) ==
    { [cmd |-> "text", text |-> m, edited |-> FALSE] : m \in Messages(n) }
      \cup (IF n = 1
            THEN { [cmd |-> "text", text |-> <<"1", "2">>, edited |-> TRUE] }
                   \cup { [cmd |-> c, text |-> a, edited |-> e]
                          : c \in {"cat", "dest"}, a \in CmdArgs, e \in BOOLEAN }
                   \cup { [cmd |-> c, text |-> <<>>, edited |-> e]
                          : c \in {"undo", "last"}, e \in BOOLEAN }
            ELSE {})

NoUpdate == [cmd |-> "none", text |-> <<>>, edited |-> FALSE]

(***************************************************************************)
(* The state machine: the application handles one update at a time (the    *)
(* handlers block on requests and main() builds the Application without    *)
(* concurrent updates).                                                    *)
(***************************************************************************)
VARIABLES
    pc,       \* "idle", "handling" (an update is with its handler) or "done"
    update,   \* the update being handled, or handled last
    result,   \* what the last handler did: exc, reply, trace
    cache,    \* the lru_cache cell of each kind
    ledger,   \* the backend's lists
    hist,     \* history: see above
    pager,    \* a paginated list, how it is fetched and what the fetch gave
    intent    \* a message and what add parses out of it

vars == <<pc, update, result, cache, ledger, hist, pager, intent>>

NoResult == [exc |-> "None", reply |-> NoReply, trace |-> <<>>]

\* history of an add that replied with its payload: the backend's
\* transactions before it and the payload it submitted
NoAdd == [ok |-> FALSE, before |-> <<>>, body |-> NoSplit]

NoIntent ==
    [pc |-> "none", text |-> <<>>, buffer |-> <<>>, ok |-> FALSE,
     amount |-> <<>>, description |-> <<>>]

NoPager ==
    [pc |-> "none", pages |-> <<>>, links |-> FALSE, first |-> FALSE,
     exc |-> "None", val |-> <<>>, sent |-> <<>>]

InitAccounts == <<[id |-> 1, name |-> UNKNOWN]>>

InitCategories == <<[id |-> 1, name |-> <<"f", "o", "o", "d">>]>>

\* the state main() leaves (lines 321-323): both lists fetched once and
\* memoized by the two start-up look-ups
Init ==
    /\ pc = "idle"
    /\ update = NoUpdate
    /\ result = NoResult
    /\ ledger = [accounts |-> InitAccounts, categories |-> InitCategories,
                 transactions |-> <<>>, nextTx |-> 1]
    /\ cache = [accounts |-> [populated |-> TRUE, data |-> InitAccounts],
                categories |-> [populated |-> TRUE, data |-> InitCategories]]
    /\ hist = [created |-> [accounts |-> {}, categories |-> {}],
               fetches |-> [accounts |-> 1, categories |-> 1],
               fetched |-> [accounts |-> 1, categories |-> 1],
               segs |-> 0, last_add |-> NoAdd, prev_add |-> NoAdd]
    /\ pager = NoPager
    /\ intent = NoIntent

World == [cache |-> cache, ledger |-> ledger, hist |-> hist, trace |-> <<>>]

Commit(o) ==
    /\ pc' = "done"
    /\ cache' = o.w.cache
    /\ ledger' = o.w.ledger
    /\ hist' = [o.w.hist EXCEPT
                  !.prev_add = hist.last_add,
                  !.last_add = IF o.reply.kind = "payload"
                               THEN [ok |-> TRUE, before |-> ledger.transactions,
                                     body |-> o.reply.body]
                               ELSE NoAdd]
    /\ result' = [exc |-> o.exc, reply |-> o.reply, trace |-> o.w.trace]
    /\ UNCHANGED <<update, pager, intent>>

\* update.message is None on an edited message: "update.message.reply_text",
\* reached when nothing was raised before, raises AttributeError and nothing
\* is replied
WithoutMessage(o) ==
    IF o.exc = "None" THEN Outcome(o.w, "AttributeError", NoReply) ELSE o

\* what the handler's outcome is on this update
On(u, o) == IF u.edited THEN WithoutMessage(o) ELSE o

\* the transport hands the next update to the application (lines 335-351)
Deliver ==
    /\ pc = "idle"
    /\ \E n \in 1..(MaxSegs - hist.segs) :
         /\ \E u \in Updates(n) : update' = u
         /\ hist' = [hist EXCEPT !.segs = @ + n]
    /\ pc' = "handling"
    /\ result' = NoResult
    /\ UNCHANGED <<cache, ledger, pager, intent>>

\* add: "update.message.text" (line 263) raises AttributeError on an edited
\* message, before anything is done
add ==
    /\ pc = "handling" /\ update.cmd = "text"
    /\ IF update.edited THEN Commit(Outcome(World, "AttributeError", NoReply))
       ELSE \E o \in add_run(update.text, World) : Commit(o)

cat_command ==
    /\ pc = "handling" /\ update.cmd = "cat"
    /\ \E o \in cat_run(update.text, World) : Commit(On(update, o))

dest_command ==
    /\ pc = "handling" /\ update.cmd = "dest"
    /\ \E o \in dest_run(update.text, World) : Commit(On(update, o))

undo_command ==
    /\ pc = "handling" /\ update.cmd = "undo"
    /\ \E o \in undo_run(World) : Commit(On(update, o))

last_command ==
    /\ pc = "handling" /\ update.cmd = "last"
    /\ \E o \in last_run(World) : Commit(On(update, o))

\* the handler has returned: the application waits for the next update
Idle ==
    /\ pc = "done"
    /\ pc' = "idle"
    /\ update' = NoUpdate
    /\ result' = NoResult
    /\ hist' = [hist EXCEPT !.prev_add = NoAdd]
    /\ UNCHANGED <<cache, ledger, pager, intent>>

Next ==
    \/ Deliver
    \/ add
    \/ cat_command
    \/ dest_command
    \/ undo_command
    \/ last_command
    \/ Idle

Spec == Init /\ [][Next]_vars

(***************************************************************************)
(* What the claims speak of.                                               *)
(***************************************************************************)
Handled == pc = "done"

Trace == result.trace

\* the free text of a message: its segments that carry no tag, joined
RECURSIVE FreeTextOf(_, _)
FreeTextOf(segs, desc) ==
    IF segs = <<>> THEN desc
    ELSE LET part == strip(Head(segs))
         IN  IF startswith(part, DEST) \/ startswith(part, CAT)
             THEN FreeTextOf(Tail(segs), desc)
             ELSE FreeTextOf(Tail(segs),
                             (IF desc # <<>> THEN desc \o <<",", " ">> ELSE desc) \o part)

FreeText(text) == FreeTextOf(split(strip(text), ","), <<>>)

\* the free text has no parseable leading amount
NoAmount(text) ==
    LET parts == split_maxsplit1(FreeText(text))
    IN  parts = <<>> \/ ~float(parts[1]).ok

\* the fragments of the message's tag segments
TagFragments(text) ==
    LET segs == split(strip(text), ",")
    IN  { Tail0(strip(segs[i]), Len(DEST)) : i \in {j \in 1..Len(segs) : startswith(strip(segs[j]), DEST)} }
          \cup
        { Tail0(strip(segs[i]), Len(CAT)) : i \in {j \in 1..Len(segs) : startswith(strip(segs[j]), CAT)} }

\* a fragment that asks for a creation, and one that names nothing to create
IsCreate(frag) == startswith(strip(frag), <<"+">>)

IsEmptyCreate(frag) == IsCreate(frag) /\ strip(Tail(strip(frag))) = <<>>

IsNamedCreate(frag) == IsCreate(frag) /\ strip(Tail(strip(frag))) # <<>>

IsMutation(e) == e.op \in {"POST", "DELETE"}

IsTxPost(e) == e.op = "POST" /\ e.res = "transactions"

IsClear(e) == e.op = "cache_clear"

Some(tr, P(_)) == \E i \in 1..Len(tr) : P(tr[i])

KindOf(cmd) == IF cmd = "dest" THEN "accounts" ELSE "categories"

\* C1: every message handled by add whose free text has no parseable leading
\* amount ends with the parse-failure reply, and no transaction POST is sent.
C1_ParseFailureTerminal ==
    (Handled /\ update.cmd = "text" /\ NoAmount(update.text))
        => (result.reply = ParseFailure /\ ~Some(Trace, IsTxPost))

\* C2: a message handled by add that fails amount parsing has issued no
\* mutating backend call and invalidated no cache.
C2_ParseFailureNotPartial ==
    (Handled /\ update.cmd = "text" /\ NoAmount(update.text))
        => (~Some(Trace, IsMutation) /\ ~Some(Trace, IsClear))

MsgC3 ==
    <<"1", "2", "€", " ", "c", "h", "e", "e", "s", "e">> \o <<",", " ">>
        \o CAT \o <<"+", "S", "n", "a", "c", "k", "s">>

AllOk(tr) == \A i \in 1..Len(tr) : tr[i].status = "ok"

\* C3: with the backend answering every request, "12€ cheese, cat=+Snacks"
\* creates category "Snacks", invalidates the category cache and submits a
\* payload with the new category id, description "cheese" and amount "12.00".
C3_CurrencySymbolAccepted ==
    (Handled /\ update.cmd = "text" /\ update.text = MsgC3 /\ AllOk(Trace))
        => /\ result.reply.kind = "payload"
           /\ result.reply.body.amount = <<"1", "2", ".", "0", "0">>
           /\ result.reply.body.description = <<"c", "h", "e", "e", "s", "e">>
           /\ result.reply.body.category_id \in hist.created.categories
           /\ Some(Trace, LAMBDA e : e.op = "POST" /\ e.res = "categories"
                                      /\ e.name = <<"S", "n", "a", "c", "k", "s">>)
           /\ Some(Trace, LAMBDA e : IsClear(e) /\ e.res = "categories")

HasId(data, id) == \E i \in 1..Len(data) : data[i].id = id

\* C4: after a successful creation of kind K the next look-up of K fetches the
\* list again: a populated cache of K holds every entity this process
\* created, the successful create POST is followed at once by the cache
\* invalidation of K, and no look-up of K after it is served from the cache
\* before a list fetch of K.
C4_CreateInvalidateFetch ==
    /\ \A k \in Kinds :
         cache[k].populated => \A id \in hist.created[k] : HasId(cache[k].data, id)
    /\ \A i \in 1..Len(Trace) :
         (Trace[i].op = "POST" /\ Trace[i].res \in Kinds /\ Trace[i].status = "ok")
             => /\ i < Len(Trace)
                /\ IsClear(Trace[i + 1]) /\ Trace[i + 1].res = Trace[i].res
    /\ \A i \in 1..Len(Trace) : \A j \in (i + 1)..Len(Trace) :
         (IsClear(Trace[i]) /\ Trace[j].op = "cache_hit" /\ Trace[j].res = Trace[i].res)
             => \E m \in (i + 1)..(j - 1) :
                  Trace[m].op = "GET" /\ Trace[m].res = Trace[i].res /\ Trace[m].status = "ok"

\* a request that creates an account, clears the cache, fetches the list
\* again and books the transaction on the account just created
C4_Witness ==
    /\ Handled /\ update.cmd = "text" /\ result.reply.kind = "payload"
    /\ result.reply.body.destination_id \in hist.created.accounts
    /\ \E i \in 1..Len(Trace) : \E j \in (i + 2)..Len(Trace) :
         /\ Trace[i].op = "POST" /\ Trace[i].res = "accounts" /\ Trace[i].status = "ok"
         /\ IsClear(Trace[i + 1])
         /\ Trace[j].op = "GET" /\ Trace[j].res = "accounts" /\ Trace[j].status = "ok"

\* C6 as claimed: between two invalidations of a kind (or since start-up) at
\* most one list fetch of that kind is issued to the backend.
C6_OneFetchIssued == \A k \in Kinds : hist.fetches[k] <= 1

\* C6 amended: between two invalidations of a kind at most one list fetch of
\* that kind is answered, the cache is populated exactly when one was, and
\* within a request no list fetch of a kind follows an answered fetch or a
\* cache hit of that kind unless the cache was cleared in between.
C6_OneFetchAnswered ==
    /\ \A k \in Kinds : hist.fetched[k] <= 1 /\ (cache[k].populated <=> hist.fetched[k] = 1)
    /\ \A i \in 1..Len(Trace) : \A j \in (i + 1)..Len(Trace) :
         ( /\ Trace[i].res = Trace[j].res
           /\ (Trace[i].op = "cache_hit" \/ (Trace[i].op = "GET" /\ Trace[i].status = "ok"))
           /\ Trace[j].op = "GET" /\ Trace[j].res \in Kinds )
             => \E m \in (i + 1)..(j - 1) : IsClear(Trace[m]) /\ Trace[m].res = Trace[i].res

\* a fetch failed after an invalidation and a second fetch was issued: the
\* cache is populated again, by the one answered fetch
C6_Witness ==
    \E k \in Kinds : hist.fetches[k] = 2 /\ hist.fetched[k] = 1 /\ cache[k].populated

\* C7: handling /cat <text> or /dest <text> issues no mutating backend call
\* and invalidates no cache.
C7_CommandsDryRun ==
    (Handled /\ update.cmd \in {"cat", "dest"})
        => (~Some(Trace, IsMutation) /\ ~Some(Trace, IsClear))

\* C8: a message handled by add with a creation fragment that names no entity
\* ends in a failure reply and submits no transaction.
C8_EmptyCreateFails ==
    (Handled /\ update.cmd = "text" /\ \E f \in TagFragments(update.text) : IsEmptyCreate(f))
        => /\ result.reply.kind \in {"parse_failure", "dest_failure"}
           /\ ~Some(Trace, IsTxPost)

\* C9: resolving a fragment with the creation marker and a non-empty name
\* issues exactly one create POST of that kind, with the stripped name, and
\* neither fetches the list nor reads the cache.
C9_NamedCreatePosts ==
    (Handled /\ update.cmd \in {"cat", "dest"} /\ IsNamedCreate(update.text))
        => /\ Trace # <<>>
           /\ Trace[1].op = "POST" /\ Trace[1].res = KindOf(update.cmd)
           /\ Trace[1].name = strip(Tail(strip(update.text)))
           /\ \A i \in 2..Len(Trace) : IsClear(Trace[i])
           /\ ~Some(Trace, LAMBDA e : e.op \in {"GET", "cache_hit"})

C9_Witness ==
    /\ Handled /\ update.cmd = "dest" /\ IsNamedCreate(update.text)
    /\ result.reply.kind = "name" /\ result.reply.name = <<"N", "e", "w">>
    /\ Len(ledger.accounts) = 2

\* C10: resolving the creation marker followed by an empty name returns no
\* entity without any backend call and leaves cache and backend untouched.
C10_EmptyCreateNoCall ==
    [][(pc = "handling" /\ update.cmd \in {"cat", "dest"} /\ IsEmptyCreate(update.text))
          => /\ result'.trace = <<>>
             /\ ~update.edited
                   => /\ result'.exc = "None"
                      /\ result'.reply = Reply("name", <<>>, NoSplit, NoSummary)
             /\ update.edited
                   => /\ result'.exc = "AttributeError"
                      /\ result'.reply = NoReply
             /\ cache' = cache
             /\ ledger' = ledger]_vars

C10_Witness ==
    /\ Handled /\ update.cmd = "cat" /\ IsEmptyCreate(update.text)
    /\ result.reply.kind = "name" /\ result.reply.name = <<>>

Items == {1, 2}

\* the pages a list can have: at most MaxPageLen entries each
PageSet == UNION { [1..n -> Items] : n \in 0..MaxPageLen }

PagesSet == UNION { [1..n -> PageSet] : n \in 1..MaxPages }

InitPages ==
    /\ pc = "idle"
    /\ update = NoUpdate
    /\ result = NoResult
    /\ ledger = [accounts |-> InitAccounts, categories |-> InitCategories,
                 transactions |-> <<>>, nextTx |-> 1]
    /\ cache = [accounts |-> Unpopulated, categories |-> Unpopulated]
    /\ hist = [created |-> [accounts |-> {}, categories |-> {}],
               fetches |-> [accounts |-> 0, categories |-> 0],
               fetched |-> [accounts |-> 0, categories |-> 0],
               segs |-> 0, last_add |-> NoAdd, prev_add |-> NoAdd]
    /\ \E pages \in PagesSet, links \in BOOLEAN, first \in BOOLEAN :
          pager = [NoPager EXCEPT !.pc = "ready", !.pages = pages,
                                  !.links = links, !.first = first]
    /\ intent = NoIntent

\* _get_data_from_request(<list URL>, first) is called and returns or raises
FetchList ==
    /\ pager.pc = "ready"
    /\ \E r \in GetPaged(pager.pages, pager.links, 1, pager.first, <<>>) :
         pager' = [pager EXCEPT !.pc = "done", !.exc = r.exc, !.val = r.val,
                                !.sent = r.sent]
    /\ UNCHANGED <<pc, update, result, cache, ledger, hist, intent>>

NextPages == FetchList

SpecPages == InitPages /\ [][NextPages]_vars

RECURSIVE Flatten(_)
Flatten(pages) ==
    IF pages = <<>> THEN <<>> ELSE Head(pages) \o Flatten(Tail(pages))

\* C11: a list fetch that returns, on a list whose responses carry the
\* paginator's links, returns the concatenation of all pages in page order
\* with the order inside each page kept, and has requested page 1, 2, ... up
\* to the last page, each exactly once and nothing after the last.
C11_PagesFlattened ==
    (pager.pc = "done" /\ pager.exc = "None" /\ pager.links /\ ~pager.first)
        => /\ pager.val = Flatten(pager.pages)
           /\ pager.sent = [i \in 1..Len(pager.pages) |-> i]

\* a three-page list with entries on every page, fetched whole
C11_Witness ==
    /\ pager.pc = "done" /\ pager.exc = "None" /\ pager.links /\ ~pager.first
    /\ pager.pages = <<<<1, 2>>, <<2>>, <<1, 1>>>>
    /\ pager.val = <<1, 2, 2, 1, 1>>
    /\ pager.sent = <<1, 2, 3>>

\* C12: a success response without the data envelope is treated as an empty
\* result by the call that received it: no handler whose list or transaction
\* read was answered that way ends with an escaped KeyError.
C12_MissingEnvelopeEmpty ==
    (Handled /\ Some(Trace, LAMBDA e : e.op = "GET" /\ e.status = "no_data"))
        => result.exc # "KeyError"

Count(tr, P(_)) == Cardinality({i \in 1..Len(tr) : P(tr[i])})

\* C13: an undo handled right after an add that replied with its payload,
\* and that got as far as its reply, has read the last withdrawal once and issued
\* exactly one DELETE; the backend's transactions are again what they were
\* before the add; on a message (not an edited one) it replies
\* "Deleted: ...", and the summary replied shows the transaction the add
\* submitted (its amount, description, destination and category).
C13_UndoAfterAdd ==
    (Handled /\ update.cmd = "undo" /\ hist.prev_add.ok
       /\ result.exc \in {"None", "AttributeError"})
        => /\ Count(Trace, LAMBDA e : e.op = "DELETE") = 1
           /\ Count(Trace, LAMBDA e : e.op = "GET") = 1
           /\ Trace[Len(Trace)].op = "DELETE"
           /\ ledger.transactions = hist.prev_add.before
           /\ ~update.edited => result.reply.kind = "deleted"
           /\ result.reply.kind = "deleted"
                 => /\ result.reply.summary.id = ledger.nextTx - 1
                    /\ result.reply.summary.amount = hist.prev_add.body.amount
                    /\ result.reply.summary.description = hist.prev_add.body.description
                    /\ result.reply.summary.destination_name
                           = NameOfId(ledger.accounts, hist.prev_add.body.destination_id)
                    /\ result.reply.summary.category_name
                           = NameOfId(ledger.categories, hist.prev_add.body.category_id)

\* two adds and then an undo: the first transaction is still there
C13_Witness ==
    /\ Handled /\ update.cmd = "undo" /\ hist.prev_add.ok
    /\ result.reply.kind = "deleted"
    /\ Len(ledger.transactions) = 1
    /\ result.reply.summary.id = 2

IsEntityPost(e) == e.op = "POST" /\ e.res \in Kinds

\* C14: a message handled by add in which an entity-creation POST got a
\* non-success status ends with a failure reply, and no transaction is
\* submitted in that request.
C14_CreateFailureTerminal ==
    (Handled /\ update.cmd = "text"
       /\ Some(Trace, LAMBDA e : IsEntityPost(e) /\ e.status = "http_error"))
        => /\ result.reply.kind \in {"parse_failure", "dest_failure"}
           /\ ~Some(Trace, IsTxPost)

\* C15: a step changes the memoized list of a kind only if it holds a
\* successful create POST of that kind, and every cache invalidation of a kind
\* comes right after a successful create POST of that kind.
C15_CacheClearedOnlyByCreate ==
    [][\A k \in Kinds :
         /\ ( /\ cache[k].populated
              /\ ~Some(result'.trace, LAMBDA e : e.op = "POST" /\ e.res = k /\ e.status = "ok") )
                => cache'[k] = cache[k]
         /\ \A i \in 1..Len(result'.trace) :
              (IsClear(result'.trace[i]) /\ result'.trace[i].res = k)
                  => /\ i > 1
                     /\ result'.trace[i - 1].op = "POST" /\ result'.trace[i - 1].res = k
                     /\ result'.trace[i - 1].status = "ok"]_vars

\* a failed account creation, a category created and the last transaction
\* removed have left the memoized account list in place
C15_Witness ==
    /\ Handled /\ cache.accounts = [populated |-> TRUE, data |-> InitAccounts]
    /\ Some(Trace, LAMBDA e : e.op = "POST" /\ e.res = "accounts" /\ e.status = "http_error")
    /\ Some(Trace, LAMBDA e : e.op = "POST" /\ e.res = "categories" /\ e.status = "ok")
    /\ Some(Trace, LAMBDA e : e.op = "cache_hit" /\ e.res = "accounts")
    /\ Some(Trace, LAMBDA e : IsTxPost(e) /\ e.status = "ok")

\* C16: the payload is replied only after the transaction POST succeeded and
\* "Deleted: ..." only after the DELETE succeeded; a transaction POST or a
\* DELETE answered with a non-success status raises out of the handler, which
\* sends no reply.
C16_ConfirmAfterSuccess ==
    Handled =>
        /\ result.reply.kind = "payload"
              => /\ Trace # <<>>
                 /\ IsTxPost(Trace[Len(Trace)]) /\ Trace[Len(Trace)].status = "ok"
                 /\ Trace[Len(Trace)].body = result.reply.body
        /\ result.reply.kind = "deleted"
              => /\ Trace # <<>>
                 /\ Trace[Len(Trace)].op = "DELETE" /\ Trace[Len(Trace)].status = "ok"
        /\ Some(Trace, LAMBDA e : (IsTxPost(e) \/ e.op = "DELETE") /\ e.status = "http_error")
              => (result.exc = "RequestException" /\ result.reply = NoReply)

\* an undo whose DELETE was refused: the transaction is still there and
\* nothing was replied
C16_Witness ==
    /\ Handled /\ update.cmd = "undo"
    /\ Some(Trace, LAMBDA e : e.op = "DELETE" /\ e.status = "http_error")
    /\ result.exc = "RequestException" /\ result.reply = NoReply
    /\ ledger.transactions # <<>>

\* the fragments of the message's destination tags
DestFragments(text) ==
    LET segs == split(strip(text), ",")
    IN  { Tail0(strip(segs[i]), Len(DEST))
          : i \in {j \in 1..Len(segs) : startswith(strip(segs[j]), DEST)} }

\* C17: every transaction add submits has a destination id, that of an
\* account of the backend; when the message names no destination, or only
\* creations without a name, the account list is looked up (for "Unknown")
\* before the transaction is submitted; the destination-failure reply comes
\* with no transaction submitted.
C17_DestinationAlways ==
    (Handled /\ update.cmd = "text") =>
        /\ \A i \in 1..Len(Trace) :
             IsTxPost(Trace[i])
                 => /\ Trace[i].body.destination_id # 0
                    /\ HasId(ledger.accounts, Trace[i].body.destination_id)
                    /\ (\A f \in DestFragments(update.text) : IsEmptyCreate(f))
                          => \E j \in 1..(i - 1) :
                               /\ Trace[j].res = "accounts"
                               /\ Trace[j].op \in {"cache_hit", "GET"}
                               /\ Trace[j].status = "ok"
        /\ result.reply = DestFailure => ~Some(Trace, IsTxPost)

\* "12": no destination given, the transaction goes to the looked-up account
C17_Witness ==
    /\ Handled /\ update.cmd = "text" /\ update.text = <<"1", "2">>
    /\ result.reply.kind = "payload" /\ result.reply.body.destination_id = 1
    /\ Trace[1].op = "cache_hit" /\ Trace[1].res = "accounts"

(***************************************************************************)
(* Parsing on its own: what add makes of a message's text, whatever the    *)
(* backend holds.                                                          *)
(***************************************************************************)
ParseSegs ==
    { <<>>,
      <<"1", "2">>,
      <<" ", "9", " ", " ", "c", "h", "e", "e", "s", "e", " ", "c", "a", "k", "e", " ">>,
      <<"m", "o", "r", "e">>,
      DEST \o <<"M", "a", "r", "k", "t">>,
      <<" ">> \o CAT \o <<"s", "n", "k">>,
      <<"D", "e", "s", "t", "=", "x">>,
      <<"2", ".", "6", "7", "5", " ", "a", " ">> \o CAT \o <<"b">> }

RECURSIVE JoinWith(_, _)
JoinWith(segs, sep) ==
    IF segs = <<>> THEN <<>>
    ELSE IF Len(segs) = 1 THEN segs[1]
    ELSE segs[1] \o sep \o JoinWith(Tail(segs), sep)

\* the message texts: up to MaxParseSegs segments with commas between them
ParseTexts ==
    UNION { { JoinWith(q, <<",">>) : q \in [1..n -> ParseSegs] } : n \in 1..MaxParseSegs }

InitParse ==
    /\ pc = "idle"
    /\ update = NoUpdate
    /\ result = NoResult
    /\ ledger = [accounts |-> InitAccounts, categories |-> InitCategories,
                 transactions |-> <<>>, nextTx |-> 1]
    /\ cache = [accounts |-> [populated |-> TRUE, data |-> InitAccounts],
                categories |-> [populated |-> TRUE, data |-> InitCategories]]
    /\ hist = [created |-> [accounts |-> {}, categories |-> {}],
               fetches |-> [accounts |-> 1, categories |-> 1],
               fetched |-> [accounts |-> 1, categories |-> 1],
               segs |-> 0, last_add |-> NoAdd, prev_add |-> NoAdd]
    /\ pager = NoPager
    /\ \E text \in ParseTexts : intent = [NoIntent EXCEPT !.pc = "ready", !.text = text]

\* lines 263-293 and 306-307 of add: the loop's free text, the amount and the
\* description as the payload will carry them
Parse ==
    /\ intent.pc = "ready"
    /\ \E st \in AddLoop(split(strip(intent.text), ","),
                          [w |-> World, exc |-> "None", dest_id |-> 0, cat_id |-> 0,
                           desc |-> <<>>]) :
         /\ st.exc = "None"
         /\ LET p == ParseAmount(st.desc)
            IN  intent' = [intent EXCEPT
                             !.pc = "done", !.buffer = st.desc, !.ok = p.ok,
                             !.amount = IF p.ok THEN FormatAmount(p.amount) ELSE <<>>,
                             !.description = IF p.ok THEN p.desc ELSE <<>>]
    /\ UNCHANGED <<pc, update, result, cache, ledger, hist, pager>>

NextParse == Parse

SpecParse == InitParse /\ [][NextParse]_vars

IsTag(seg) == startswith(strip(seg), DEST) \/ startswith(strip(seg), CAT)

\* the trimmed segments of a text that carry no tag, in encounter order
RECURSIVE FreeParts(_)
FreeParts(segs) ==
    IF segs = <<>> THEN <<>>
    ELSE IF IsTag(Head(segs)) THEN FreeParts(Tail(segs))
    ELSE <<strip(Head(segs))>> \o FreeParts(Tail(segs))

RECURSIVE DropEmptyHead(_)
DropEmptyHead(parts) ==
    IF parts # <<>> /\ Head(parts) = <<>> THEN DropEmptyHead(Tail(parts)) ELSE parts

\* the first whitespace-delimited token of a text and what follows it
FirstToken(s) ==
    LET t == lstrip(s)
        i == FindFrom(t, WS, 1)
    IN  IF i = 0 THEN t ELSE SubSeq(t, 1, i - 1)

RestAfterToken(s) ==
    LET t == lstrip(s)
        i == FindFrom(t, WS, 1)
    IN  IF i = 0 THEN <<>> ELSE lstrip(Tail0(t, i))

\* what a free text stands for: the amount is its first token, the
\* description the rest, "Unknown" when there is no rest
IntentOf(buffer) ==
    LET tok == FirstToken(buffer)
        rest == RestAfterToken(buffer)
    IN  IF tok = <<>> \/ ~float(tok).ok
        THEN [ok |-> FALSE, amount |-> <<>>, description |-> <<>>]
        ELSE [ok |-> TRUE, amount |-> FormatAmount(float(tok)),
              description |-> IF rest = <<>> THEN UNKNOWN ELSE rest]

\* C18 as claimed: the segments that start with dest= or cat= are left out
\* wherever they stand, the other segments are joined with ", " in encounter
\* order, the first whitespace-delimited token of the result is the amount
\* and the rest the description ("Unknown" when there is no rest).
C18_FreeTextJoined ==
    intent.pc = "done" =>
        LET buffer == JoinWith(FreeParts(split(strip(intent.text), ",")), <<",", " ">>)
        IN  /\ intent.buffer = buffer
            /\ intent.ok = IntentOf(buffer).ok
            /\ intent.amount = IntentOf(buffer).amount
            /\ intent.description = IntentOf(buffer).description

\* C18 amended: as claimed, except that ", " is put before a free-text
\* segment only when free text has been gathered already: empty segments
\* before the first non-empty one leave nothing in the free text.
C18_FreeTextAccumulated ==
    intent.pc = "done" =>
        LET buffer == JoinWith(DropEmptyHead(FreeParts(split(strip(intent.text), ","))),
                               <<",", " ">>)
        IN  /\ intent.buffer = buffer
            /\ intent.ok = IntentOf(buffer).ok
            /\ intent.amount = IntentOf(buffer).amount
            /\ intent.description = IntentOf(buffer).description

\* "dest=Markt, 9  cheese cake ,more": the tag comes first, the free text is
\* "9  cheese cake, more"
C18_Witness ==
    /\ intent.pc = "done" /\ intent.ok
    /\ intent.text = DEST \o <<"M", "a", "r", "k", "t", ",">>
                        \o <<" ", "9", " ", " ", "c", "h", "e", "e", "s", "e", " ", "c", "a", "k", "e", " ">>
                        \o <<",", "m", "o", "r", "e">>
    /\ intent.amount = <<"9", ".", "0", "0">>
    /\ intent.description = <<"c", "h", "e", "e", "s", "e", " ", "c", "a", "k", "e", ",", " ", "m", "o", "r", "e">>

\* the fragments of the message's tag segments of one kind, in order
RECURSIVE FragmentsOf(_, _)
FragmentsOf(segs, tag) ==
    IF segs = <<>> THEN <<>>
    ELSE IF startswith(strip(Head(segs)), tag)
    THEN <<Tail0(strip(Head(segs)), Len(tag))>> \o FragmentsOf(Tail(segs), tag)
    ELSE FragmentsOf(Tail(segs), tag)

TagOf(kind) == IF kind = "accounts" THEN DEST ELSE CAT

\* C19: of several dest= (or cat=) segments only the last one counts: every
\* entity-creation POST of a request is the one its last fragment of that
\* kind asks for, so earlier fragments leave no mark on the request.
C19_LastTagWins ==
    (Handled /\ update.cmd = "text") =>
        \A i \in 1..Len(Trace) :
            IsEntityPost(Trace[i])
                => LET fs == FragmentsOf(split(strip(update.text), ","), TagOf(Trace[i].res))
                       f == fs[Len(fs)]
                   IN  /\ IsNamedCreate(f)
                       /\ Trace[i].name = strip(Tail(strip(f)))
                       /\ \A j \in 1..Len(Trace) :
                            (IsEntityPost(Trace[j]) /\ Trace[j].res = Trace[i].res) => j = i

\* C20: a resolver call with the creation marker and a name the backend
\* already holds POSTs the creation again, as its first request and without
\* fetching the list or reading the cache; answered with success it adds
\* another entity of that name and invalidates the cache of the kind.
C20_CreateNotIdempotent ==
    [][( /\ pc = "handling" /\ update.cmd \in {"cat", "dest"}
         /\ IsNamedCreate(update.text)
         /\ strip(Tail(strip(update.text))) \in NameSet(ledger[KindOf(update.cmd)]) )
          => LET k == KindOf(update.cmd)
                 name == strip(Tail(strip(update.text)))
                 tr == result'.trace
             IN  /\ tr # <<>>
                 /\ tr[1].op = "POST" /\ tr[1].res = k /\ tr[1].name = name
                 /\ ~Some(tr, LAMBDA e : e.op \in {"GET", "cache_hit"})
                 /\ tr[1].status = "ok"
                       => /\ Len(ledger'[k]) = Len(ledger[k]) + 1
                          /\ ledger'[k][Len(ledger'[k])].name = name
                          /\ Len(tr) = 2 /\ IsClear(tr[2]) /\ tr[2].res = k
                          /\ cache'[k] = Unpopulated]_vars

\* "/dest +New" twice: two accounts called New, the cache empty
C20_Witness ==
    /\ Handled /\ update.cmd = "dest" /\ IsNamedCreate(update.text)
    /\ Len(ledger.accounts) = 3
    /\ ledger.accounts[2].name = <<"N", "e", "w">>
    /\ ledger.accounts[3].name = <<"N", "e", "w">>
    /\ ledger.accounts[2].id # ledger.accounts[3].id
    /\ ~cache.accounts.populated

====
